---- MODULE Spec2Model ----
(***************************************************************************)
(* The file-backed trade journal server of src/server.js: the Joi schema   *)
(* of a trade, the in-memory `trades` array mirrored to trades.json, the   *)
(* startup sequence (loadTrades, cleanDuplicateFields, saveTrades) and the *)
(* four /api/trades handlers, with every `await saveTrades()` as a point   *)
(* where other requests are handled.                                       *)
(*                                                                         *)
(* JavaScript values are tagged records: Undefined, Num(n), Str(chars),    *)
(* Iso(c), Bool(b), Null.  A number is held in hundredths (150.5 is        *)
(* Num(15050)); a string is the sequence of its characters; Iso(c) is the  *)
(* ISO-8601 string Date#toISOString gives at clock value c.  An object is  *)
(* a function from the keys it has to values.  The clock is assumed not to *)
(* run backwards.                                                          *)
(***************************************************************************)
EXTENDS Integers, Sequences, FiniteSets, TLC

\* ---------------------------------------------------------------- bounds
MaxClock == 2
MaxTrades == 2
MaxInFlight == 2
MaxRequests == 3

\* ------------------------------------------------- constants of the schema
MinInstrument == 2
MaxInstrument == 50
MaxNotes == 500

\* ------------------------------------------------------ JavaScript values
Undefined == [t |-> "undefined"]
Null == [t |-> "null"]
Num(n) == [t |-> "num", v |-> n]
Str(s) == [t |-> "str", v |-> s]
Iso(c) == [t |-> "iso", v |-> c]
Bool(b) == [t |-> "bool", v |-> b]

IsNumber(x) == x.t = "num"
IsString(x) == x.t \in {"str", "iso"}

\* o[k] of JavaScript: undefined for a key the object does not have.
Get(o, k) == IF k \in DOMAIN o THEN o[k] ELSE Undefined

\* ToBoolean: undefined, null, false, 0 and '' are falsy.
Truthy(x) ==
  /\ x # Undefined
  /\ x # Null
  /\ x # Bool(FALSE)
  /\ x # Num(0)
  /\ x # Str(<<>>)

\* a || b
OrElse(a, b) == IF Truthy(a) THEN a ELSE b

Digits == <<"0", "1", "2", "3", "4", "5", "6", "7", "8", "9">>
DigitSet == {Digits[i] : i \in 1..10}
DigitVal(c) == (CHOOSE i \in 1..10 : Digits[i] = c) - 1
AllDigits(s) == \A i \in 1..Len(s) : s[i] \in DigitSet

\* The decimal digits of a natural number.
RECURSIVE NatToString(_)
NatToString(n) ==
  IF n < 10 THEN <<Digits[n + 1]>>
  ELSE NatToString(n \div 10) \o <<Digits[(n % 10) + 1]>>

\* Number#toString of a number held in hundredths.
NumberToString(h) ==
  LET a == IF h < 0 THEN -h ELSE h
      sign == IF h < 0 THEN <<"-">> ELSE <<>>
      ip == NatToString(a \div 100)
      f == a % 100
      frac == IF f = 0 THEN <<>>
              ELSE IF f % 10 = 0 THEN <<".", Digits[(f \div 10) + 1]>>
              ELSE <<".", Digits[(f \div 10) + 1], Digits[(f % 10) + 1]>>
  IN sign \o ip \o frac

\* String(x) as the handlers use it on an _id.
ToStringJS(x) ==
  CASE x.t = "num" -> Str(NumberToString(x.v))
    [] x.t = "undefined" -> Str(<<"u", "n", "d", "e", "f", "i", "n", "e", "d">>)
    [] x.t = "null" -> Str(<<"n", "u", "l", "l">>)
    [] OTHER -> x

\* The value of a run of digits.
RECURSIVE DigitsValue(_)
DigitsValue(s) ==
  IF s = <<>> THEN 0
  ELSE 10 * DigitsValue(SubSeq(s, 1, Len(s) - 1)) + DigitVal(s[Len(s)])

HasSign(s) == Len(s) > 0 /\ s[1] \in {"+", "-"}
Unsigned(s) == IF HasSign(s) THEN Tail(s) ELSE s
DotsOf(s) == {i \in 1..Len(s) : s[i] = "."}

\* /^[+-]?\d*\.?\d+$/ : an optional sign, then digits, or digits (maybe none),
\* a point and at least one digit.
MatchesDecimal(s) ==
  LET u == Unsigned(s)
      dots == DotsOf(u)
  IN \/ /\ dots = {}
        /\ Len(u) >= 1
        /\ AllDigits(u)
     \/ /\ Cardinality(dots) = 1
        /\ LET p == CHOOSE i \in dots : TRUE
           IN /\ AllDigits(SubSeq(u, 1, p - 1))
              /\ Len(u) > p
              /\ AllDigits(SubSeq(u, p + 1, Len(u)))

\* /^\d{4}-\d{2}-\d{2}$/
MatchesDate(s) ==
  /\ Len(s) = 10
  /\ s[5] = "-"
  /\ s[8] = "-"
  /\ \A i \in (1..10) \ {5, 8} : s[i] \in DigitSet

\* parseFloat of a string the decimal pattern accepts, in hundredths (digits
\* beyond the second decimal are dropped by this representation).
ParseDecimal(s) ==
  LET u == Unsigned(s)
      dots == DotsOf(u)
      p == IF dots = {} THEN Len(u) + 1 ELSE CHOOSE i \in dots : TRUE
      ip == DigitsValue(SubSeq(u, 1, p - 1))
      fr == SubSeq(u, p + 1, Len(u))
      d1 == IF Len(fr) >= 1 THEN DigitVal(fr[1]) ELSE 0
      d2 == IF Len(fr) >= 2 THEN DigitVal(fr[2]) ELSE 0
      mag == ip * 100 + d1 * 10 + d2
  IN IF HasSign(s) /\ s[1] = "-" THEN -mag ELSE mag

\* parseFloat(x): a number goes through its own decimal text and comes back.
ParseFloat(x) ==
  IF IsNumber(x) THEN Num(ParseDecimal(NumberToString(x.v)))
  ELSE Num(ParseDecimal(x.v))

\* typeof x === 'string' ? parseFloat(x) : x
ParseIfString(x) == IF x.t = "str" THEN Num(ParseDecimal(x.v)) ELSE x

\* --------------------------------------------------- tradeSchema (Joi)
Chars(n, c) == [i \in 1..n |-> c]
RequiredKeys == <<"instrument", "entryPrice", "exitPrice", "tradeDate", "profitLoss">>
SchemaKeys == RequiredKeys \o <<"notes">>
SeqRange(q) == {q[i] : i \in 1..Len(q)}

\* A set as a sequence, in some fixed order.
RECURSIVE SetToSeq(_)
SetToSeq(S) ==
  IF S = {} THEN <<>>
  ELSE LET x == CHOOSE y \in S : TRUE IN <<x>> \o SetToSeq(S \ {x})

Err(field, type) == [field |-> field, type |-> type]

\* Joi.string().min(2).max(50).required()
InstrumentErrors(x) ==
  IF x = Undefined THEN <<Err("instrument", "any.required")>>
  ELSE IF x.t # "str" THEN <<Err("instrument", "string.base")>>
  ELSE IF x.v = <<>> THEN <<Err("instrument", "string.empty")>>
  ELSE IF Len(x.v) < MinInstrument THEN <<Err("instrument", "string.min")>>
  ELSE IF Len(x.v) > MaxInstrument THEN <<Err("instrument", "string.max")>>
  ELSE <<>>

\* Joi.alternatives().try(Joi.number(), Joi.string().pattern(decimal)).required()
PriceErrors(k, x) ==
  IF x = Undefined THEN <<Err(k, "any.required")>>
  ELSE IF IsNumber(x) THEN <<>>
  ELSE IF x.t = "str" /\ x.v # <<>> /\ MatchesDecimal(x.v) THEN <<>>
  ELSE <<Err(k, "alternatives.match")>>

\* Joi.string().pattern(/^\d{4}-\d{2}-\d{2}$/).required()
TradeDateErrors(x) ==
  IF x = Undefined THEN <<Err("tradeDate", "any.required")>>
  ELSE IF x.t # "str" THEN <<Err("tradeDate", "string.base")>>
  ELSE IF x.v = <<>> THEN <<Err("tradeDate", "string.empty")>>
  ELSE IF ~MatchesDate(x.v) THEN <<Err("tradeDate", "string.pattern.base")>>
  ELSE <<>>

\* Joi.string().allow('').max(500).optional()
NotesErrors(x) ==
  IF x = Undefined THEN <<>>
  ELSE IF x.t # "str" THEN <<Err("notes", "string.base")>>
  ELSE IF Len(x.v) > MaxNotes THEN <<Err("notes", "string.max")>>
  ELSE <<>>

\* allowUnknown: false
UnknownErrors(body) ==
  LET extra == SetToSeq(DOMAIN body \ SeqRange(SchemaKeys))
  IN [i \in 1..Len(extra) |-> Err(extra[i], "object.unknown")]

\* Every violation of the schema, the keys in the schema's order and the
\* unknown keys after them.
SchemaErrors(body) ==
  InstrumentErrors(Get(body, "instrument"))
    \o PriceErrors("entryPrice", Get(body, "entryPrice"))
    \o PriceErrors("exitPrice", Get(body, "exitPrice"))
    \o TradeDateErrors(Get(body, "tradeDate"))
    \o PriceErrors("profitLoss", Get(body, "profitLoss"))
    \o NotesErrors(Get(body, "notes"))
    \o UnknownErrors(body)

\* Validation that stops at the first violation (abortEarly: true).
ValidateAbortEarly(body) ==
  LET all == SchemaErrors(body)
  IN IF all = <<>> THEN <<>> ELSE <<all[1]>>

\* tradeSchema.validate(req.body, {abortEarly: false, allowUnknown: false,
\* convert: false}) and the handlers' error.details.map: the errors list.
Validate(body) == SchemaErrors(body)

\* ------------------------------------------------------- trade records
FieldOrder ==
  <<"_id", "instrument", "entry_price", "exit_price", "trade_date",
    "profit_loss", "notes", "created_at", "updated_at">>
Fields == SeqRange(FieldOrder)

\* The newTrade literal of POST: three clock reads, t1 <= t2 <= t3.
NewTrade(value, t1, t2, t3) ==
  [k \in Fields |->
    CASE k = "_id" -> Str(NatToString(t1))
      [] k = "instrument" -> Get(value, "instrument")
      [] k = "entry_price" -> ParseFloat(Get(value, "entryPrice"))
      [] k = "exit_price" -> ParseFloat(Get(value, "exitPrice"))
      [] k = "trade_date" -> Get(value, "tradeDate")
      [] k = "profit_loss" -> ParseFloat(Get(value, "profitLoss"))
      [] k = "notes" -> OrElse(Get(value, "notes"), Str(<<>>))
      [] k = "created_at" -> Iso(t2)
      [] k = "updated_at" -> Iso(t3)]

\* An update that stamps the record as if it were new.
UpdatedTradeRestamped(old, value, t) ==
  [NewTrade(value, 0, t, t) EXCEPT !["_id"] = old["_id"]]

\* The object PUT stores: the old record spread, then the editable fields.
UpdatedTrade(old, value, t) ==
  [k \in (DOMAIN old) \cup (Fields \ {"_id", "created_at"}) |->
    CASE k = "instrument" -> Get(value, "instrument")
      [] k = "entry_price" -> ParseIfString(Get(value, "entryPrice"))
      [] k = "exit_price" -> ParseIfString(Get(value, "exitPrice"))
      [] k = "trade_date" -> Get(value, "tradeDate")
      [] k = "profit_loss" -> ParseIfString(Get(value, "profitLoss"))
      [] k = "notes" -> OrElse(Get(value, "notes"), Str(<<>>))
      [] k = "updated_at" -> Iso(t)
      [] OTHER -> old[k]]

\* The object cleanDuplicateFields makes of a loaded one; tc and tu are the
\* clock values its two `new Date()` would read.
CleanTrade(trade, tc, tu) ==
  [k \in Fields |->
    CASE k = "_id" -> Get(trade, "_id")
      [] k = "instrument" -> Get(trade, "instrument")
      [] k = "entry_price" -> OrElse(Get(trade, "entry_price"), Get(trade, "entryPrice"))
      [] k = "exit_price" -> OrElse(Get(trade, "exit_price"), Get(trade, "exitPrice"))
      [] k = "trade_date" -> OrElse(Get(trade, "trade_date"), Get(trade, "tradeDate"))
      [] k = "profit_loss" -> OrElse(Get(trade, "profit_loss"), Get(trade, "profitLoss"))
      [] k = "notes" -> Get(trade, "notes")
      [] k = "created_at" -> OrElse(Get(trade, "created_at"), Iso(tc))
      [] k = "updated_at" -> OrElse(Get(trade, "updated_at"), Iso(tu))]

\* trades.map(...) of cleanDuplicateFields started at clock value c: every
\* outcome [out, now] the clock allows, its reads never decreasing.
RECURSIVE cleanDuplicateFields(_, _)
cleanDuplicateFields(ts, c) ==
  IF ts = <<>> THEN {[out |-> <<>>, now |-> c]}
  ELSE UNION {
         UNION {
           {[out |-> <<CleanTrade(Head(ts), tc, tu)>> \o r.out, now |-> r.now] :
              r \in cleanDuplicateFields(Tail(ts), tu)} :
           tu \in tc..MaxClock} :
         tc \in c..MaxClock}

\* JSON.stringify(trades, null, 2): per object its keys in order, those of
\* undefined value left out.  (Only objects built by the literals above, whose
\* keys are in FieldOrder, are ever stringified.)
StringifyObject(o) ==
  LET keys == SelectSeq(FieldOrder, LAMBDA k : Get(o, k) # Undefined)
  IN [j \in 1..Len(keys) |-> <<keys[j], o[keys[j]]>>]
JSONStringify(ts) == [i \in 1..Len(ts) |-> StringifyObject(ts[i])]

\* JSON.parse: the object of a list of key/value pairs (a later pair wins).
ParseObject(pairs) ==
  [k \in {pairs[j][1] : j \in 1..Len(pairs)} |->
    pairs[CHOOSE j \in 1..Len(pairs) :
            /\ pairs[j][1] = k
            /\ \A j2 \in (j + 1)..Len(pairs) : pairs[j2][1] # k][2]]
JSONParse(text) == [i \in 1..Len(text) |-> ParseObject(text[i])]

\* trades.findIndex(t => String(t._id) === id), counted from 1; 0 for -1.
FindIndex(ts, id) ==
  LET hits == {i \in 1..Len(ts) : ToStringJS(Get(ts[i], "_id")) = id}
  IN IF hits = {} THEN 0 ELSE CHOOSE i \in hits : \A j \in hits : i <= j

\* trades.splice(index, 1) leaves this.
RemoveAt(ts, index) ==
  [i \in 1..(Len(ts) - 1) |-> IF i < index THEN ts[i] ELSE ts[i + 1]]

\* The durable file: absent, or the JSON text last written.
NoFile == [exists |-> FALSE]
FileOf(text) == [exists |-> TRUE, text |-> text]

\* ------------------------------------------------------ request bodies
MkBody(instrument, entryPrice, exitPrice, tradeDate, profitLoss, notes) ==
  [k \in SeqRange(SchemaKeys) |->
    CASE k = "instrument" -> instrument
      [] k = "entryPrice" -> entryPrice
      [] k = "exitPrice" -> exitPrice
      [] k = "tradeDate" -> tradeDate
      [] k = "profitLoss" -> profitLoss
      [] k = "notes" -> notes]
Only(body, keys) == [k \in (DOMAIN body) \cap keys |-> body[k]]
Without(body, keys) == [k \in (DOMAIN body) \ keys |-> body[k]]
EmptyBody == [k \in {} |-> Undefined]

\* {instrument:"AAPL", entryPrice:"150.50", exitPrice:"155.75",
\*  tradeDate:"2023-05-15", profitLoss:"5.25", notes:""}
BodyScenario ==
  MkBody(Str(<<"A", "A", "P", "L">>),
         Str(<<"1", "5", "0", ".", "5", "0">>),
         Str(<<"1", "5", "5", ".", "7", "5">>),
         Str(<<"2", "0", "2", "3", "-", "0", "5", "-", "1", "5">>),
         Str(<<"5", ".", "2", "5">>),
         Str(<<>>))

\* {instrument:"TSLA", entryPrice:10, exitPrice:10, tradeDate:"2024-01-02",
\*  profitLoss:0}: numbers, a break-even trade, no notes.
BodyZero ==
  Without(MkBody(Str(<<"T", "S", "L", "A">>), Num(1000), Num(1000),
                 Str(<<"2", "0", "2", "4", "-", "0", "1", "-", "0", "2">>),
                 Num(0), Undefined),
          {"notes"})

\* instrument "A", one character.
BodyShort == [BodyScenario EXCEPT !["instrument"] = Str(<<"A">>)]
\* No exitPrice and no profitLoss.
BodyMissingTwo == Without(BodyScenario, {"exitPrice", "profitLoss"})

ValidBodies == {BodyScenario, BodyZero}
PostBodies == ValidBodies \cup {BodyMissingTwo}
PutBodies == {BodyZero, BodyShort}

\* ---------------------------------------------------------------- state
VARIABLES
  now,      \* the clock Date.now() and new Date() read
  phase,    \* "load", "clean", "save": the startup sequence; "serving"; "crashed"
  file,     \* trades.json
  trades,   \* the in-memory array
  pending,  \* the handlers waiting in `await saveTrades()`, by slot
  resp,     \* the response the last step sent, NoResp if it sent none
  started   \* how many requests have reached their `await saveTrades()`
vars == <<now, phase, file, trades, pending, resp, started>>

Slots == 1..MaxInFlight
Clock == 0..MaxClock
Idle == [op |-> "idle"]
NoResp == [op |-> "none"]
PathIds == {Str(NatToString(c)) : c \in Clock} \cup {Str(<<"x">>)}

Waiting == {s \in Slots : pending[s] # Idle}
HasFreeSlot == Waiting # Slots /\ started < MaxRequests
FreeSlot == CHOOSE s \in Slots \ Waiting : \A s2 \in Slots \ Waiting : s <= s2

\* A handler waiting in saveTrades: data is the text it gave writeFile,
\* JSON.stringify(trades) as trades was when saveTrades was called.  The model
\* remembers of it: rec, the record it made, replaced or removed; before and
\* after, trades as its handler found and left it; since, which handlers have
\* run since its own did (see Noted).
Request(op, id, index, rec, body, before, after) ==
  [op |-> op, id |-> id, index |-> index, rec |-> rec, body |-> body,
   data |-> JSONStringify(after), before |-> before, after |-> after,
   since |-> {}]

\* The waiting handlers, told that the handler of an `op` on `id` runs now: a
\* create concerns them all, an update or a delete those of the same id.
Noted(op, id) ==
  [s \in Slots |->
    IF pending[s] = Idle THEN Idle
    ELSE IF op = "POST" \/ pending[s].id = id
    THEN [pending[s] EXCEPT !.since = @ \cup {op}]
    ELSE pending[s]]

\* A response, with what the model remembers of its request: rec, before and
\* after as in Request; since, for a success, the request's `since`; prev, for
\* a GET, the response sent by the step just before it (NoResp if that step
\* was no success of a create, update or delete).
Response(op, status, id, body, data, errors, rec, before, after, prev) ==
  [op |-> op, status |-> status, id |-> id, body |-> body, data |-> data,
   errors |-> errors, rec |-> rec, before |-> before, after |-> after,
   since |-> {}, prev |-> prev]

\* A record this server stored in an earlier run, at clock value 0: the
\* newTrade of a POST of BodyScenario then.
EarlierTrade == NewTrade(BodyScenario, 0, 0, 0)

\* trades.json as the process finds it: absent, an empty array, or one record.
InitFiles == {NoFile, FileOf(<<>>), FileOf(JSONStringify(<<EarlierTrade>>))}

Init ==
  /\ now = 1
  /\ phase = "load"
  /\ file \in InitFiles
  /\ started = 0
  /\ trades = <<>>
  /\ pending = [s \in Slots |-> Idle]
  /\ resp = NoResp

\* The clock advances.
Tick ==
  /\ now < MaxClock
  /\ now' = now + 1
  /\ resp' = NoResp
  /\ UNCHANGED <<phase, file, trades, pending, started>>

\* ------------------------------------------------------------- startup
\* await loadTrades(): the file parsed, or an absent file initialised to [].
LoadTrades ==
  /\ phase = "load"
  /\ IF file.exists
     THEN /\ trades' = JSONParse(file.text)
          /\ file' = file
     ELSE /\ trades' = trades
          /\ file' = FileOf(JSONStringify(<<>>))
  /\ phase' = "clean"
  /\ resp' = NoResp
  /\ UNCHANGED <<now, pending, started>>

\* initializeTradesFile's writeFile fails: process.exit(1).
InitializeFails ==
  /\ phase = "load"
  /\ ~file.exists
  /\ phase' = "crashed"
  /\ resp' = NoResp
  /\ UNCHANGED <<now, file, trades, pending, started>>

\* cleanDuplicateFields()
CleanDuplicateFields ==
  /\ phase = "clean"
  /\ \E r \in cleanDuplicateFields(trades, now) :
       /\ trades' = r.out
       /\ now' = r.now
  /\ phase' = "save"
  /\ resp' = NoResp
  /\ UNCHANGED <<file, pending, started>>

\* await saveTrades() of the startup: written, and the routes are set up.
StartupSave ==
  /\ phase = "save"
  /\ file' = FileOf(JSONStringify(trades))
  /\ phase' = "serving"
  /\ resp' = NoResp
  /\ UNCHANGED <<now, trades, pending, started>>

\* The startup write fails: saveTrades rethrows and the module load ends.
StartupSaveFails ==
  /\ phase = "save"
  /\ phase' = "crashed"
  /\ resp' = NoResp
  /\ UNCHANGED <<now, file, trades, pending, started>>

\* ------------------------------------------------------------ handlers
\* A write that never reaches the file.
WrittenFileUnwritten(old, data) == old
\* trades.json once writeFile(TRADES_FILE, data) has completed.
WrittenFile(old, data) == FileOf(data)

\* POST /api/trades, to its 400 or to its `await saveTrades()`.
PostTrade(body) ==
  /\ phase = "serving"
  /\ LET errors == Validate(body)
     IN IF errors # <<>>
        THEN /\ resp' = Response("POST", 400, Undefined, body, Undefined, errors,
                                 Undefined, trades, trades, NoResp)
             /\ UNCHANGED <<now, phase, file, trades, pending, started>>
        ELSE /\ Len(trades) < MaxTrades
             /\ HasFreeSlot
             /\ \E t2 \in now..MaxClock : \E t3 \in t2..MaxClock :
                  LET newTrade == NewTrade(body, now, t2, t3)
                      after == Append(trades, newTrade)
                  IN /\ trades' = after
                     /\ pending' = [Noted("POST", newTrade["_id"]) EXCEPT ![FreeSlot] =
                          Request("POST", newTrade["_id"], Len(after), newTrade,
                                  body, trades, after)]
                     /\ now' = t3
             /\ started' = started + 1
             /\ resp' = NoResp
             /\ UNCHANGED <<phase, file>>

\* The success response of a create, update or delete sent by the step before.
PrevResp ==
  IF resp.op \in {"POST", "PUT", "DELETE"} /\ resp.status \in {200, 201}
  THEN resp ELSE NoResp

\* GET /api/trades/:id
GetTrade(id) ==
  /\ phase = "serving"
  /\ LET index == FindIndex(trades, id)
     IN resp' =
          IF index = 0
          THEN Response("GET", 404, id, EmptyBody, Undefined, <<>>, Undefined, trades, trades, PrevResp)
          ELSE Response("GET", 200, id, EmptyBody,
                        [k \in Fields |-> Get(trades[index], k)], <<>>,
                        Undefined, trades, trades, PrevResp)
  /\ UNCHANGED <<now, phase, file, trades, pending, started>>

\* PUT /api/trades/:id, to its 404, its 400 or its `await saveTrades()`.
PutTrade(id, body) ==
  /\ phase = "serving"
  /\ LET index == FindIndex(trades, id)
         errors == Validate(body)
     IN IF index = 0
        THEN /\ resp' = Response("PUT", 404, id, body, Undefined, <<>>, Undefined, trades, trades, NoResp)
             /\ UNCHANGED <<now, phase, file, trades, pending, started>>
        ELSE IF errors # <<>>
        THEN /\ resp' = Response("PUT", 400, id, body, Undefined, errors, Undefined, trades, trades, NoResp)
             /\ UNCHANGED <<now, phase, file, trades, pending, started>>
        ELSE /\ HasFreeSlot
             /\ LET after == [trades EXCEPT ![index] = UpdatedTrade(trades[index], body, now)]
                IN /\ trades' = after
                   /\ pending' = [Noted("PUT", id) EXCEPT ![FreeSlot] =
                        Request("PUT", id, index, trades[index], body, trades, after)]
             /\ started' = started + 1
             /\ resp' = NoResp
             /\ UNCHANGED <<now, phase, file>>

\* DELETE /api/trades/:id, to its 404 or to its `await saveTrades()`.
DeleteTrade(id) ==
  /\ phase = "serving"
  /\ LET index == FindIndex(trades, id)
     IN IF index = 0
        THEN /\ resp' = Response("DELETE", 404, id, EmptyBody, Undefined, <<>>,
                                 Undefined, trades, trades, NoResp)
             /\ UNCHANGED <<now, phase, file, trades, pending, started>>
        ELSE /\ HasFreeSlot
             /\ LET after == RemoveAt(trades, index)
                IN /\ trades' = after
                   /\ pending' = [Noted("DELETE", id) EXCEPT ![FreeSlot] =
                        Request("DELETE", id, index, trades[index], EmptyBody, trades,
                                after)]
             /\ started' = started + 1
             /\ resp' = NoResp
             /\ UNCHANGED <<now, phase, file>>

\* The data of the success response of request r, read after the await:
\* newTrade, trades[index] as it is by then, the spliced-out record.
SuccessData(r) ==
  CASE r.op = "POST" -> r.rec
    [] r.op = "PUT" -> IF r.index <= Len(trades) THEN trades[r.index] ELSE Undefined
    [] r.op = "DELETE" -> r.rec

\* writeFile of the handler in slot s completes: saveTrades returns and the
\* handler sends its success response (201 for POST, 200 otherwise).
WriteCompletes(s) ==
  /\ pending[s] # Idle
  /\ LET r == pending[s]
     IN /\ file' = WrittenFile(file, r.data)
        /\ resp' = [Response(r.op, IF r.op = "POST" THEN 201 ELSE 200, r.id, r.body,
                             SuccessData(r), <<>>, r.rec, r.before, r.after, NoResp)
                      EXCEPT !.since = r.since]
  /\ pending' = [pending EXCEPT ![s] = Idle]
  /\ UNCHANGED <<now, phase, trades, started>>

\* writeFile of the handler in slot s fails: saveTrades rethrows and the
\* handler's catch answers 500; trades keeps what the handler did to it.
WriteFails(s) ==
  /\ pending[s] # Idle
  /\ LET r == pending[s]
     IN resp' = Response(r.op, 500, r.id, r.body, Undefined, <<>>, r.rec,
                         r.before, r.after, NoResp)
  /\ pending' = [pending EXCEPT ![s] = Idle]
  /\ UNCHANGED <<now, phase, file, trades, started>>

Next ==
  \/ Tick
  \/ LoadTrades
  \/ InitializeFails
  \/ CleanDuplicateFields
  \/ StartupSave
  \/ StartupSaveFails
  \/ \E body \in PostBodies : PostTrade(body)
  \/ \E id \in PathIds : GetTrade(id)
  \/ \E id \in PathIds : \E body \in PutBodies : PutTrade(id, body)
  \/ \E id \in PathIds : DeleteTrade(id)
  \/ \E s \in Slots : WriteCompletes(s)
  \/ \E s \in Slots : WriteFails(s)

Spec == Init /\ [][Next]_vars

\* ------------------------------------------- the startup on legacy files
\* The JSON text of an object whose keys are written in the order `keys`.
PairsOf(keys, o) == [j \in 1..Len(keys) |-> <<keys[j], o[keys[j]]>>]

LegacyKeyOrder ==
  <<"_id", "instrument", "entry_price", "entryPrice", "exit_price", "exitPrice",
    "trade_date", "tradeDate", "profit_loss", "profitLoss", "notes",
    "created_at", "updated_at">>

\* A stored object of an earlier version: a numeric or a string _id; the
\* price, date and profit fields under the snake_case names, the camelCase
\* names or both; created_at and updated_at present or not.  pl is the
\* profit or loss, 0 for a break-even trade.
LegacyObject(id, naming, stamps, pl) ==
  LET snake == naming \in {"snake", "both"}
      camel == naming \in {"camel", "both"}
      date == Str(<<"2", "0", "2", "3", "-", "0", "5", "-", "1", "5">>)
      all ==
        [k \in SeqRange(LegacyKeyOrder) |->
          CASE k = "_id" -> id
            [] k = "instrument" -> Str(<<"A", "A", "P", "L">>)
            [] k \in {"entry_price", "entryPrice"} -> Num(15050)
            [] k \in {"exit_price", "exitPrice"} -> Num(15575)
            [] k \in {"trade_date", "tradeDate"} -> date
            [] k \in {"profit_loss", "profitLoss"} -> pl
            [] k = "notes" -> Str(<<>>)
            [] k \in {"created_at", "updated_at"} -> Iso(0)]
      keep ==
        {"_id", "instrument", "notes"}
          \cup (IF snake THEN {"entry_price", "exit_price", "trade_date", "profit_loss"} ELSE {})
          \cup (IF camel THEN {"entryPrice", "exitPrice", "tradeDate", "profitLoss"} ELSE {})
          \cup (IF stamps \in {"both", "created"} THEN {"created_at"} ELSE {})
          \cup (IF stamps \in {"both", "updated"} THEN {"updated_at"} ELSE {})
  IN PairsOf(SelectSeq(LegacyKeyOrder, LAMBDA k : k \in keep), all)

LegacyObjects ==
  {LegacyObject(id, naming, stamps, pl) :
     id \in {Num(0), Str(<<"0">>)},
     naming \in {"snake", "camel", "both"},
     stamps \in {"both", "created", "updated", "none"},
     pl \in {Num(525), Num(0)}}

\* trades.json with one legacy object, or with a legacy object after a
\* record of the current form.
LegacyFiles ==
  {NoFile}
    \cup {FileOf(<<o>>) : o \in LegacyObjects}
    \cup {FileOf(<<StringifyObject(EarlierTrade), o>>) :
            o \in {LegacyObject(Num(0), naming, "none", Num(525)) :
                     naming \in {"snake", "camel", "both"}}}

InitLegacy ==
  /\ now = 1
  /\ phase = "load"
  /\ file \in LegacyFiles
  /\ trades = <<>>
  /\ pending = [s \in Slots |-> Idle]
  /\ resp = NoResp
  /\ started = 0

NextStartup ==
  \/ Tick
  \/ LoadTrades
  \/ InitializeFails
  \/ CleanDuplicateFields
  \/ StartupSave
  \/ StartupSaveFails

\* The startup sequence alone, over the legacy files.
SpecStartup == InitLegacy /\ [][NextStartup]_vars

\* ------------------------------------------------ POST over many bodies
AllKeys == SeqRange(SchemaKeys)
Required == SeqRange(RequiredKeys)

\* BodyScenario with any of its keys left out.
PartialBodies == {Only(BodyScenario, keys) : keys \in SUBSET AllKeys}

\* Bodies with a value the schema refuses, alone or beside a missing key.
BadValueBodies ==
  {BodyShort,
   [BodyScenario EXCEPT !["instrument"] = Str(Chars(MaxInstrument + 1, "A"))],
   [BodyScenario EXCEPT !["instrument"] = Str(<<>>)],
   [BodyScenario EXCEPT !["entryPrice"] = Str(<<"1", "e", "5">>)],
   [BodyScenario EXCEPT !["exitPrice"] = Str(<<"5", ".">>)],
   [BodyScenario EXCEPT !["profitLoss"] = Bool(TRUE)],
   [BodyScenario EXCEPT !["tradeDate"] = Str(<<"2", "0", "2", "3", "-", "5", "-", "1", "5">>)],
   [BodyScenario EXCEPT !["notes"] = Str(Chars(MaxNotes + 1, "n"))],
   [BodyScenario EXCEPT !["notes"] = Null],
   Without(BodyShort, {"tradeDate"}),
   Without([BodyScenario EXCEPT !["entryPrice"] = Str(<<"+", "-", "1">>)], {"exitPrice"}),
   [k \in AllKeys \cup {"extra"} |-> IF k = "extra" THEN Num(100) ELSE BodyScenario[k]],
   [k \in {"instrument", "extra"} |-> IF k = "extra" THEN Num(100) ELSE BodyScenario[k]]}

ManyBodies == PartialBodies \cup BadValueBodies

\* The server as it is after its startup on an empty trades.json.
InitServing ==
  /\ now = 1
  /\ phase = "serving"
  /\ file = FileOf(JSONStringify(<<>>))
  /\ trades = <<>>
  /\ pending = [s \in Slots |-> Idle]
  /\ resp = NoResp
  /\ started = 0

NextPost ==
  \/ Tick
  \/ \E body \in ManyBodies : PostTrade(body)
  \/ \E s \in Slots : WriteCompletes(s)
  \/ \E s \in Slots : WriteFails(s)

\* Creates alone, over many bodies.
SpecPost == InitServing /\ [][NextPost]_vars

\* --------------------------------------------------------------- claims
IsSuccess(r) == r.op \in {"POST", "PUT", "DELETE"} /\ r.status \in {200, 201}
InTrades(rec) == \E i \in 1..Len(trades) : trades[i] = rec
InFile(rec) ==
  /\ file.exists
  /\ \E i \in 1..Len(file.text) : file.text[i] = StringifyObject(rec)
TimeLeq(a, b) == a.t = "iso" /\ b.t = "iso" /\ a.v <= b.v
RecordSet(ts) == {ts[i] : i \in 1..Len(ts)}

\* C1: when POST /api/trades answers 201 with record r, the GET of r._id that
\* follows it, no update or delete of that id having run since the create
\* began, answers 200 with a record equal to r in every field.
C1_CreateThenGet ==
  (/\ resp.op = "GET"
   /\ resp.prev.op = "POST"
   /\ resp.prev.status = 201
   /\ resp.prev.since \cap {"PUT", "DELETE"} = {}
   /\ resp.id = ToStringJS(resp.prev.data["_id"]))
  => (resp.status = 200 /\ resp.data = resp.prev.data)

\* C2: no two records of the trades collection have the same _id.
C2_UniqueIds ==
  \A i, j \in 1..Len(trades) :
    i # j => Get(trades[i], "_id") # Get(trades[j], "_id")

\* C3: a success response of a create, update or delete is sent only once the
\* write that request started has completed, and trades.json then holds the
\* collection as that request's handler left it.
C3_PersistedBeforeSuccess ==
  IsSuccess(resp) => file = FileOf(JSONStringify(resp.after))

\* C3 happens: a delete is answered 200 while another request's write is
\* still in flight.
C3_Witness ==
  /\ resp.op = "DELETE"
  /\ resp.status = 200
  /\ Waiting # {}
  /\ resp.after # resp.before

\* C4: when the write of a create fails and the request answers 500, memory
\* and file agree on the new record: both hold it or neither does.
C4_NoDivergenceOnFailure ==
  (resp.op = "POST" /\ resp.status = 500)
  => (InTrades(resp.rec) <=> InFile(resp.rec))

\* C5: no handler body of a create, update or delete runs while another such
\* request is between its start and the end of its durable write.
C5_NoInterleaving == Cardinality(Waiting) <= 1

\* C6: the GET that follows a successful PUT of the same id (no delete of
\* that id having run since the update began) answers with a record of the
\* same _id and created_at as the record had before the update, and an
\* updated_at not smaller than it had.
C6_UpdateKeepsIdentity ==
  (/\ resp.op = "GET"
   /\ resp.prev.op = "PUT"
   /\ resp.prev.status = 200
   /\ "DELETE" \notin resp.prev.since
   /\ resp.id = resp.prev.id)
  => (/\ resp.status = 200
      /\ Get(resp.data, "_id") = Get(resp.prev.rec, "_id")
      /\ Get(resp.data, "created_at") = Get(resp.prev.rec, "created_at")
      /\ TimeLeq(Get(resp.prev.rec, "updated_at"), Get(resp.data, "updated_at")))

\* C6 happens: a record is updated at a later clock value than it was made,
\* another request's write is in flight, and the GET finds it.
C6_Witness ==
  /\ resp.op = "GET"
  /\ resp.status = 200
  /\ resp.prev.op = "PUT"
  /\ resp.prev.status = 200
  /\ "DELETE" \notin resp.prev.since
  /\ resp.id = resp.prev.id
  /\ Get(resp.data, "updated_at") # Get(resp.prev.rec, "updated_at")
  /\ Get(resp.data, "instrument") # Get(resp.prev.rec, "instrument")
  /\ Waiting # {}

\* C7: the GET that follows a DELETE answered 200, for the same id, no create
\* having run since the delete began, answers 404.
C7_DeleteThenGet ==
  (/\ resp.op = "GET"
   /\ resp.prev.op = "DELETE"
   /\ resp.prev.status = 200
   /\ "POST" \notin resp.prev.since
   /\ resp.id = resp.prev.id)
  => resp.status = 404

\* C8: once every request has been answered and the collection is persisted,
\* the startup sequence run on the file gives back the same set of records,
\* every field equal.
C8_RoundTrip ==
  (/\ phase = "serving"
   /\ Waiting = {}
   /\ file = FileOf(JSONStringify(trades)))
  => \A r \in cleanDuplicateFields(JSONParse(file.text), now) :
       RecordSet(r.out) = RecordSet(trades)

\* C9: cleanDuplicateFields applied to the collection it has just produced
\* leaves it as it is, whatever the clock reads by then.
C9_CleanIdempotent ==
  phase = "save" => \A r \in cleanDuplicateFields(trades, now) : r.out = trades

MissingRequired(body) == Required \ DOMAIN body

\* C10: a POST whose body lacks required fields answers 400 with an error
\* entry naming each missing field, and leaves the collection as it was.
C10_MissingFieldsListed ==
  (resp.op = "POST" /\ MissingRequired(resp.body) # {})
  => (/\ resp.status = 400
      /\ \A k \in MissingRequired(resp.body) :
           \E i \in 1..Len(resp.errors) : resp.errors[i].field = k
      /\ trades = resp.before)

\* C10 happens: a body lacking two required fields is refused while the
\* collection holds a record.
C10_Witness ==
  /\ resp.op = "POST"
  /\ resp.status = 400
  /\ Cardinality(MissingRequired(resp.body)) >= 2
  /\ Len(resp.errors) >= 2
  /\ Len(trades) >= 1

\* The strict order of two timestamps.
TimeLess(a, b) == a.t = "iso" /\ b.t = "iso" /\ a.v < b.v

\* The place in the collection where the handler of the answered request
\* found its record (findIndex on trades as the handler found it).
HandledIndex(r) == FindIndex(r.before, r.id)

\* C11: every PUT answered 200 stored a record whose updated_at is strictly
\* greater than the updated_at the record had before the request, also when
\* the update is handled at the clock value of the record's creation or of
\* its previous update.
C11_UpdatedAtStrictlyGreater ==
  (resp.op = "PUT" /\ resp.status = 200)
  => TimeLess(Get(resp.before[HandledIndex(resp)], "updated_at"),
              Get(resp.after[HandledIndex(resp)], "updated_at"))

\* C12: once the startup has normalised the loaded records, and from then on
\* through every create and update, every record of the collection has
\* created_at <= updated_at.
C12_CreatedBeforeUpdated ==
  phase \in {"save", "serving"}
  => \A i \in 1..Len(trades) :
       TimeLeq(Get(trades[i], "created_at"), Get(trades[i], "updated_at"))

\* The fields a PUT replaces.
EditableFields ==
  {"instrument", "entry_price", "exit_price", "trade_date", "profit_loss", "notes"}

\* C13: a PUT answered 200 (no other update or delete of its id having run
\* while it waited on its write) carries in its response the record of the
\* requested id, its editable fields those of the validated body, also when
\* a request on another record was handled while it waited.
C13_PutReturnsUpdatedRecord ==
  (/\ resp.op = "PUT"
   /\ resp.status = 200
   /\ resp.since \cap {"PUT", "DELETE"} = {})
  => (/\ resp.data # Undefined
      /\ ToStringJS(Get(resp.data, "_id")) = resp.id
      /\ \A k \in EditableFields :
           Get(resp.data, k) = UpdatedTrade(resp.rec, resp.body, 0)[k])

\* ------------------------------------------ requests whose writes succeed
\* The server as it is after its startup on an empty trades.json or on one
\* holding a record of an earlier run.
InitServed ==
  /\ now = 1
  /\ phase = "serving"
  /\ trades \in {<<>>, <<EarlierTrade>>}
  /\ file = FileOf(JSONStringify(trades))
  /\ pending = [s \in Slots |-> Idle]
  /\ resp = NoResp
  /\ started = 0

NextDurable ==
  \/ Tick
  \/ \E body \in ValidBodies : PostTrade(body)
  \/ \E id \in PathIds : \E body \in PutBodies : PutTrade(id, body)
  \/ \E id \in PathIds : DeleteTrade(id)
  \/ \E s \in Slots : WriteCompletes(s)

\* Creates, updates and deletes in every interleaving, every writeFile
\* succeeding, the writes completing in any order.
SpecDurable == InitServed /\ [][NextDurable]_vars

\* C14: whenever no write is in flight, every create, update and delete
\* issued so far having been answered with success, trades.json holds the
\* in-memory collection.
C14_NoLostUpdate ==
  (phase = "serving" /\ Waiting = {})
  => file = FileOf(JSONStringify(trades))
====
